---------------------------- MODULE Spec2Model ----------------------------
(***************************************************************************)
(* ConversionWorker (src/topdf_app/core/worker.py): the background thread  *)
(* that drives one DocSend conversion, and the three methods the main      *)
(* thread calls on it while it runs (provide_credentials, cancel,          *)
(* cancel_auth).                                                           *)
(*                                                                         *)
(* Two threads are modelled.  The worker thread executes run(); its        *)
(* position is pc.  The main (GUI) thread executes one worker method at a  *)
(* time; its position inside the method is mpc.  Every attribute store of  *)
(* a method is a step of its own, so the worker may observe any prefix of  *)
(* a method's stores (CPython guarantees no more than per-store atomicity).*)
(*                                                                         *)
(* topdf.scraper, topdf.pdf_builder and the file system are the worker's   *)
(* environment: their outcomes are nondeterministic choices (ScrapeGate,   *)
(* CapturePage, CaptureFail, Build, Save).                                 *)
(***************************************************************************)
EXTENDS Integers, Sequences, FiniteSets, TLC

\* ------------------------------------------------------------- bounds
\* largest page count a scrape may report
MaxPages == 5
\* number of worker methods the main thread calls during one run
MaxCalls == 2

\* ------------------------------------------------------------- values
None == "None"
\* what the auth screens pass to provide_credentials: the email screen an
\* email alone (passcode defaults to None), the passcode screen both
ProvideArgs == { <<"a@b.com", None>>, <<"x@y.org", "s3cret">> }

\* weight of the capture phase in on_scrape_progress
ScrapeWeight == 60

\* classification a scrape attempt ends its page load with
GateOutcomes == {"Open", "EmailRequiredError", "PasscodeRequiredError",
                 "InvalidCredentialsError", "PageLoadError", "TimeoutError"}

\* exception classes derived from topdf.exceptions.TopdfError
TopdfErrors == {"InvalidURLError", "InvalidCredentialsError", "PageLoadError",
                "TimeoutError", "EmailRequiredError", "PasscodeRequiredError",
                "PDFBuildError"}

\* str(e).lower() of the exceptions that are no TopdfError: which of the
\* keywords _format_error searches for a text holds ("LONG" stands for a
\* text of more than 200 characters that holds none)
Has(text, word) ==
    CASE text = "read timeout on connection" -> word \in {"timeout", "connection"}
      [] text = "network unreachable" -> word = "network"
      [] text = "[Errno 13] Permission denied" -> word = "permission"
      [] OTHER -> FALSE

Exc(cls, text) == [cls |-> cls, text |-> text]
NoExc == Exc("", "")

\* ------------------------------------------------------------- stores: values
\* distinct names of the catalogue
NCatalogue == 3
\* writes that may fail in one behaviour
MaxWriteFailures == 1

Names == <<"Daisy", "Jane", "Ralph", "Kevin", "Felix">>
\* the catalogue list: some names are listed more than once ("Daisy" three
\* times), so the list is longer than the set of its names
CARTOON_NAMES == SubSeq(Names, 1, NCatalogue) \o <<"Daisy">>
\* names release_name may be called with: catalogue names, a name left in
\* the file by an earlier catalogue, a name never issued
NameArgs == {Names[i] : i \in 1..NCatalogue} \cup {"Stale", "Custom"}

\* files the worker writes in one behaviour
MaxSaves == 3
\* names a PDF is written or saved under ("Foo (1)" is also what the first
\* numbered path of "Foo" is called)
FileNames == <<"Foo", "Foo (1)", "Bar">>

\* pdf paths ever added to the history; they are numbered in the order of
\* their first add, 0 is a path that is never added
MaxPaths == 11
\* history operations, in one behaviour, other than the add of a new path
MaxOther == 1
\* HistoryManager.MAX_ENTRIES
MAX_ENTRIES == 10
\* the document saved at a path: its name and its page count
DocName(path) == "Doc" \o ToString(path)
PagesOf(path) == 1 + (path % 3)

\* set(list) and list(set)
SetOf(seq) == {seq[i] : i \in DOMAIN seq}
RECURSIVE ListOf(_)
ListOf(S) ==
    IF S = {} THEN <<>>
    ELSE LET x == CHOOSE y \in S : TRUE IN <<x>> \o ListOf(S \ {x})

\* a file: absent ("missing"); holding a JSON document of the expected shape
\* ("ok", with its list); holding text that is no JSON document ("corrupt");
\* present but not readable ("unreadable": open or read_text raises OSError);
\* holding a JSON document whose conversion raises ("invalid": data is the
\* part of its list that converts before the member that does not)
File(st, data) == [state |-> st, data |-> data]
NoFile == File("missing", <<>>)
CorruptFile == File("corrupt", <<>>)
UnreadableFile == File("unreadable", <<>>)

\* what a write attempt leaves: the new document; the old file, when the
\* directory or the open fails; a truncated file, when the write fails
\* after the open
WriteOutcomes == {"ok", "unchanged", "truncated"}
Written(file, data, outcome) ==
    CASE outcome = "ok" -> File("ok", data)
      [] outcome = "unchanged" -> file
      [] outcome = "truncated" -> CorruptFile

\* the record of a store operation
Op(op, arg, ret, before, fileBefore, wrote, ok) ==
    [op |-> op, arg |-> arg, ret |-> ret, before |-> before,
     fileBefore |-> fileBefore, wrote |-> wrote, ok |-> ok]
NoOp == Op("none", "", "", {}, NoFile, FALSE, FALSE)

VARIABLES
    pc,            \* position of the worker thread in run()
    mpc,           \* position of the main thread inside a worker method
    argPass,       \* passcode argument of the provide_credentials in progress
    email,         \* self.email
    passcode,      \* self.passcode
    cancelled,     \* self._cancelled
    authEvent,     \* self._auth_event (set / clear)
    authProvided,  \* self._auth_provided
    ldEmail,       \* email argument already evaluated for the next scrape call
    total,         \* page count of the scrape in progress
    current,       \* pages captured by the scrape in progress
    exc,           \* exception propagating to the handler of line 206
    events,        \* signals emitted so far, in emission order
    calls,         \* <<email, passcode>> of every scraper.scrape call
    gates,         \* gate outcome of every scraper.scrape call
    hist,          \* record of what the main thread did, and when
    component,     \* which store the behaviour exercises ("none": the worker)
    _used_names,   \* NameManager._used_names
    usedFile,      \* the file used_names.json
    files,         \* paths of the files in the output directory
    temp,          \* CompleteScreen._temp_pdf_path ("": nothing to save)
    nSaves,        \* files the worker has written so far
    _history,      \* HistoryManager._history
    historyFile,   \* the file history.json
    clock,         \* what datetime.now() reads
    nPaths,        \* pdf paths added to the history so far
    nOther,        \* history operations other than the add of a new path
    nFail,         \* writes that have failed so far
    last,          \* the last store operation: its argument, result, pre-state
    state,         \* DocSendApp.state._state
    worker,        \* DocSendApp.worker (0: None, else the worker's number)
    workers,       \* every ConversionWorker created so far
    queue,         \* events posted to the main thread, not yet handled
    apc,           \* where the main thread is: idle in the event loop, ...
    current_url,   \* DocSendApp._current_url
    pending,       \* DocSendApp._pending_pdf_path, _pending_page_count
    screen,        \* the complete screen: _temp_pdf_path, _is_saved
    home,          \* the home screen: the text of url_input, the Convert button
    ahist          \* what the user did to which worker

convVars == <<pc, mpc, argPass, email, passcode, cancelled, authEvent,
              authProvided, ldEmail, total, current, exc, events, calls, gates,
              hist>>
nameVars == <<_used_names, usedFile>>
fileVars == <<files, temp, nSaves>>
historyVars == <<_history, historyFile, clock, nPaths, nOther>>
storeVars == <<component, nameVars, fileVars, historyVars, nFail, last>>
appVars == <<state, worker, workers, queue, apc, current_url, pending, screen,
            home, ahist>>
vars == <<convVars, storeVars, appVars>>
\* what a step of the worker or of its caller leaves alone
outside == <<storeVars, appVars>>

workerVars == <<pc, ldEmail, total, current, exc, events, calls, gates>>
sharedVars == <<email, passcode, cancelled, authEvent, authProvided>>

\* ------------------------------------------------------------- events
\* progress.emit(percent, message)
Progress(p, m)  == [kind |-> "progress", pct |-> p, arg |-> m]
AuthRequired(k) == [kind |-> "auth_required", pct |-> 0, arg |-> k]
Complete(n)     == [kind |-> "complete", pct |-> n, arg |-> ""]
Error(m)        == [kind |-> "error", pct |-> 0, arg |-> m]

Emit(evs) == events' = events \o evs

\* ------------------------------------------------------------- pure parts
\* the capture phase weighted as the whole of the work
Percent_of_hundred(cur, tot) == (cur * 100) \div tot

\* int((current / total) * 60): the float product truncates to the integer
\* quotient for every total up to 3000 (checked exhaustively), so integer
\* division computes the same value within MaxPages
Percent(cur, tot) == (cur * ScrapeWeight) \div tot

\* the isinstance chain with the TopdfError base class tested first
_format_error_base_first(e) ==
    IF e.cls \in TopdfErrors THEN e.text
    ELSE IF Has(e.text, "timeout")
        THEN "Connection timed out. Please check your internet."
    ELSE e.text

\* _format_error: the isinstance chain, then the keyword search in
\* str(e).lower(), then str(e) cut to 200 characters
_format_error(e) ==
    IF e.cls = "InvalidURLError" THEN "Invalid DocSend URL format"
    ELSE IF e.cls = "InvalidCredentialsError" THEN "Invalid email or passcode"
    ELSE IF e.cls = "PageLoadError"
        THEN "Could not load the document. Check your internet connection."
    ELSE IF e.cls = "TimeoutError" THEN "Connection timed out. Please try again."
    ELSE IF e.cls \in TopdfErrors THEN e.text
    ELSE IF Has(e.text, "timeout")
        THEN "Connection timed out. Please check your internet."
    ELSE IF Has(e.text, "network") \/ Has(e.text, "connection")
        THEN "Network error. Please check your internet connection."
    ELSE IF Has(e.text, "permission")
        THEN "Permission denied. Cannot save file to this location."
    ELSE IF e.text = "LONG" THEN "LONG[:200]"
    ELSE e.text

\* the message attribute a TopdfError carries
Message(cls) == "message of " \o cls

\* an exception leaves the try body for the handler of line 206
Raise(cls, text) ==
    /\ exc' = Exc(cls, text)
    /\ pc' = "except"
    /\ hist' = [hist EXCEPT !.raisedCancelled =
                    IF hist.cancelCalled THEN "yes" ELSE "no"]

\* ------------------------------------------------------------- initial state
\* DocSendApp.__init__: state HOME, no worker, nothing pending
\* _current_url = None; a URL is the sequence of its parts
NoUrl == <<>>
\* the URL the conversions of the application model are started with
SomeUrl == <<"https://", "docsend.com", "/view/", "a">>
\* HomeScreen.__init__: an empty field, the Convert button disabled; checked
\* tells that textChanged has been handled for the text of the field
NoInput == [text |-> <<>>, enabled |-> FALSE, checked |-> TRUE]
NoPending == [path |-> "", pages |-> 0]
NoResult == [temp |-> "", saved |-> FALSE]
AppIdle ==
    /\ state = "HOME"
    /\ worker = 0
    /\ workers = <<>>
    /\ queue = <<>>
    /\ apc = "idle"
    /\ current_url = NoUrl
    /\ pending = NoPending
    /\ screen = NoResult
    /\ home = NoInput
    /\ ahist = [cancelled |-> {}, cancelHome |-> FALSE, savedFrom |-> {},
                terminalFrom |-> 0, terminalFor |-> 0]

\* the output directory and the complete screen before any conversion
FilesIdle ==
    /\ files = {}
    /\ temp = ""
    /\ nSaves = 0

\* the history before any file was saved
HistoryIdle ==
    /\ _history = <<>>
    /\ historyFile = NoFile
    /\ clock = 0
    /\ nPaths = 0
    /\ nOther = 0

\* the stores before any operation
StoresEmpty ==
    /\ _used_names = {}
    /\ usedFile = NoFile
    /\ FilesIdle
    /\ HistoryIdle
    /\ nFail = 0
    /\ last = NoOp

\* no store is exercised while the worker runs
StoreIdle ==
    /\ component = "none"
    /\ StoresEmpty

\* __init__ as DocSendApp._start_conversion calls it: no credentials
ConvInit ==
    /\ pc = "init"
    /\ mpc = "idle"
    /\ argPass = None
    /\ email = None
    /\ passcode = None
    /\ cancelled = FALSE
    /\ authEvent = FALSE
    /\ authProvided = FALSE
    /\ ldEmail = None
    /\ total = 0
    /\ current = 0
    /\ exc = NoExc
    /\ events = <<>>
    /\ calls = <<>>
    /\ gates = <<>>
    /\ hist = [nCalls |-> 0, nProvide |-> 0, lastProv |-> <<None, None>>,
               provLoading |-> FALSE, provWaiting |-> FALSE, provOther |-> FALSE,
               provIn |-> "", cancelBy |-> "none",
               cancelCalled |-> FALSE, cancelPc |-> "none", evAtCancel |-> 0,
               callsAtCancel |-> 0, raisedCancelled |-> "none",
               curAtCancel |-> 0, provAfterCancel |-> ""]

Init ==
    /\ ConvInit
    /\ StoreIdle
    /\ AppIdle

\* ------------------------------------------------------------- worker thread
\* QThread.start(): the thread enters run()
Start ==
    /\ pc = "init"
    /\ pc' = "run"
    /\ UNCHANGED <<mpc, argPass, sharedVars, ldEmail, total, current, exc,
                   events, calls, gates, hist>>
    /\ UNCHANGED outside

\* lines 68-92: the imports, progress 0, the components, progress 5
RunBegin ==
    /\ pc = "run"
    /\ \/ /\ Emit(<<Progress(0, "Initializing..."),
                   Progress(5, "Loading document...")>>)
          /\ pc' = "ld_email"
          /\ UNCHANGED <<exc, hist>>
       \/ /\ Raise("ImportError", "No module named 'topdf'")
          /\ UNCHANGED events
    /\ UNCHANGED <<mpc, argPass, sharedVars, ldEmail, total, current, calls, gates>>
    /\ UNCHANGED outside

\* lines 97-98 and 122-123 (148-149): the argument email=self.email is read
LoadEmail ==
    /\ pc = "ld_email"
    /\ ldEmail' = email
    /\ pc' = "ld_pass"
    /\ UNCHANGED <<mpc, argPass, sharedVars, total, current, exc, events,
                   calls, gates, hist>>
    /\ UNCHANGED outside

\* the scrape called without the passcode
ScrapeArgs_no_passcode == <<ldEmail, None>>

\* lines 98-99, 123-124 (149-150): email=self.email, passcode=self.passcode
ScrapeArgs == <<ldEmail, passcode>>

\* lines 95-102 and 120-127 (146-153): passcode=self.passcode is read and
\* scraper.scrape is called
ScrapeCall ==
    /\ pc = "ld_pass"
    /\ calls' = Append(calls, ScrapeArgs)
    /\ pc' = "gate"
    /\ UNCHANGED <<mpc, argPass, sharedVars, ldEmail, total, current, exc,
                   events, gates, hist>>
    /\ UNCHANGED outside

\* the except clauses of lines 103 and 129 belong to the try of line 94, which
\* holds the first scrape only: an exception of the retried scrape, raised
\* inside a handler, is caught by no sibling clause and reaches line 206
HandlerFor(g) ==
    IF Len(calls) = 1 /\ g = "EmailRequiredError" THEN "h_email"
    ELSE IF Len(calls) = 1 /\ g = "PasscodeRequiredError" THEN "h_passcode"
    ELSE "except"

\* the scrape loads the document and classifies the gate
ScrapeGate ==
    /\ pc = "gate"
    /\ \E g \in GateOutcomes :
        /\ gates' = Append(gates, g)
        /\ IF g = "Open"
           THEN /\ \E n \in 1..MaxPages : total' = n
                /\ current' = 0
                /\ pc' = "capture"
                /\ UNCHANGED <<exc, hist>>
           ELSE IF HandlerFor(g) = "except"
           THEN /\ Raise(g, Message(g))
                /\ UNCHANGED <<total, current>>
           ELSE /\ pc' = HandlerFor(g)
                /\ UNCHANGED <<total, current, exc, hist>>
    /\ UNCHANGED <<mpc, argPass, sharedVars, ldEmail, events, calls>>
    /\ UNCHANGED outside

\* f"Capturing page {current} of {total}"
Capturing(cur, tot) ==
    "Capturing page " \o ToString(cur) \o " of " \o ToString(tot)

\* lines 84-89: on_scrape_progress(current, total)
on_scrape_progress(cur, tot) ==
    IF cancelled THEN UNCHANGED events
    ELSE Emit(<<Progress(Percent(cur, tot), Capturing(cur, tot))>>)

\* the scrape captures the next page and reports it to the callback
CapturePage ==
    /\ pc = "capture"
    /\ current < total
    /\ current' = current + 1
    /\ on_scrape_progress(current + 1, total)
    /\ UNCHANGED <<pc, mpc, argPass, sharedVars, ldEmail, total, exc, calls,
                   gates, hist>>
    /\ UNCHANGED outside

\* the scrape fails while capturing
CaptureFail ==
    /\ pc = "capture"
    /\ current < total
    /\ \E c \in {"PageLoadError", "TimeoutError"} : Raise(c, Message(c))
    /\ UNCHANGED <<mpc, argPass, sharedVars, ldEmail, total, current, events,
                   calls, gates>>
    /\ UNCHANGED outside

\* the scrape returns its ScrapeResult
ScrapeReturn ==
    /\ pc = "capture"
    /\ current = total
    /\ pc' = "scraped"
    /\ UNCHANGED <<mpc, argPass, sharedVars, ldEmail, total, current, exc,
                   events, calls, gates, hist>>
    /\ UNCHANGED outside

\* lines 104-109 and 130-135: the handler of EmailRequiredError, of
\* PasscodeRequiredError
GateHandler ==
    /\ pc \in {"h_email", "h_passcode"}
    /\ IF cancelled
       THEN /\ pc' = "done"
            /\ UNCHANGED events
       ELSE /\ Emit(<<Progress(10, "Authentication required..."),
                      AuthRequired(IF pc = "h_email" THEN "email" ELSE "passcode")>>)
            /\ pc' = "wait"
    /\ UNCHANGED <<mpc, argPass, sharedVars, ldEmail, total, current, exc,
                   calls, gates, hist>>
    /\ UNCHANGED outside

\* lines 112, 138: self._auth_event.wait() returns once the event is set
AuthWait ==
    /\ pc = "wait"
    /\ authEvent
    /\ pc' = "clear"
    /\ UNCHANGED <<mpc, argPass, sharedVars, ldEmail, total, current, exc,
                   events, calls, gates, hist>>
    /\ UNCHANGED outside

\* lines 113, 139: self._auth_event.clear()
AuthClear ==
    /\ pc = "clear"
    /\ authEvent' = FALSE
    /\ pc' = "woke"
    /\ UNCHANGED <<mpc, argPass, email, passcode, cancelled, authProvided,
                   ldEmail, total, current, exc, events, calls, gates, hist>>
    /\ UNCHANGED outside

\* the test of line 115 with the flag read the wrong way round
AbortAfterWait_inverted == cancelled \/ authProvided

\* the test of line 115 without its cancellation half
AbortAfterWait_no_cancel == ~authProvided

\* lines 115, 141: if self._cancelled or not self._auth_provided: return
AbortAfterWait == cancelled \/ ~authProvided

\* lines 115-119 and 141-145: the check after the wait, progress 15
AfterWait ==
    /\ pc = "woke"
    /\ IF AbortAfterWait
       THEN /\ pc' = "done"
            /\ UNCHANGED events
       ELSE /\ Emit(<<Progress(15, "Authenticating...")>>)
            /\ pc' = "ld_email"
    /\ UNCHANGED <<mpc, argPass, sharedVars, ldEmail, total, current, exc,
                   calls, gates, hist>>
    /\ UNCHANGED outside

\* a cancellation checkpoint: if self._cancelled: return, else the progress
\* event of the next step
Checkpoint(from, pct, msg, to) ==
    /\ pc = from
    /\ IF cancelled
       THEN /\ pc' = "done"
            /\ UNCHANGED events
       ELSE /\ Emit(<<Progress(pct, msg)>>)
            /\ pc' = to
    /\ UNCHANGED <<mpc, argPass, sharedVars, ldEmail, total, current, exc,
                   calls, gates, hist>>
    /\ UNCHANGED outside

\* lines 155-159
CheckNaming == Checkpoint("scraped", 62, "Generating name...", "naming")

\* lines 161-170: get_random_name() swallows the errors of its own save
Naming ==
    /\ pc = "naming"
    /\ pc' = "named"
    /\ UNCHANGED <<mpc, argPass, sharedVars, ldEmail, total, current, exc,
                   events, calls, gates, hist>>
    /\ UNCHANGED outside

\* lines 172-176
CheckBuild == Checkpoint("named", 70, "Building PDF...", "build")

\* line 177: pdf_builder.build returns the bytes or raises
Build ==
    /\ pc = "build"
    /\ \/ /\ pc' = "built"
          /\ UNCHANGED <<exc, hist>>
       \/ Raise("PDFBuildError", Message("PDFBuildError"))
    /\ UNCHANGED <<mpc, argPass, sharedVars, ldEmail, total, current, events,
                   calls, gates>>
    /\ UNCHANGED outside

\* lines 179-183
CheckSave == Checkpoint("built", 90, "Saving PDF...", "save")

\* lines 186-197: mkdir, the search of a free path, write_bytes
Save ==
    /\ pc = "save"
    /\ \/ /\ pc' = "saved"
          /\ UNCHANGED <<exc, hist>>
       \/ \E t \in {"[Errno 13] Permission denied", "disk full"} : Raise("OSError", t)
    /\ UNCHANGED <<mpc, argPass, sharedVars, ldEmail, total, current, events,
                   calls, gates>>
    /\ UNCHANGED outside

\* complete emitted before the last progress event
CompleteEvents_swapped == <<Complete(total), Progress(100, "Complete!")>>

\* lines 199-204: progress 100, then complete
CompleteEvents == <<Progress(100, "Complete!"), Complete(total)>>

EmitComplete ==
    /\ pc = "saved"
    /\ Emit(CompleteEvents)
    /\ pc' = "done"
    /\ UNCHANGED <<mpc, argPass, sharedVars, ldEmail, total, current, exc,
                   calls, gates, hist>>
    /\ UNCHANGED outside

\* the handler without its cancellation test
ReportError_always == TRUE

\* line 207: if not self._cancelled
ReportError == ~cancelled

\* lines 206-209: the handler of every exception of run()
ExceptHandler ==
    /\ pc = "except"
    /\ IF ReportError
       THEN Emit(<<Error(_format_error(exc))>>)
       ELSE UNCHANGED events
    /\ pc' = "done"
    /\ UNCHANGED <<mpc, argPass, sharedVars, ldEmail, total, current, exc,
                   calls, gates, hist>>
    /\ UNCHANGED outside

WorkerNext ==
    \/ RunBegin \/ LoadEmail \/ ScrapeCall \/ ScrapeGate \/ CapturePage
    \/ CaptureFail \/ ScrapeReturn \/ GateHandler \/ AuthWait \/ AuthClear
    \/ AfterWait \/ CheckNaming \/ Naming \/ CheckBuild \/ Build \/ CheckSave
    \/ Save \/ EmitComplete \/ ExceptHandler

\* ------------------------------------------------------------- main thread
\* the first scraper.scrape call is in flight
FirstLoad == Len(calls) = 1 /\ pc \in {"gate", "capture"}

\* a method call begins: the bookkeeping the properties refer to
Called(isProvide, args, by) ==
    LET isCancel == by # "" IN
    [hist EXCEPT
        !.nCalls = @ + 1,
        !.nProvide = IF isProvide /\ @ < 2 THEN @ + 1 ELSE @,
        !.lastProv = IF isProvide THEN args ELSE @,
        !.provLoading = @ \/ (isProvide /\ FirstLoad),
        !.provWaiting = @ \/ (isProvide /\ pc = "wait"),
        !.provOther = @ \/ (isProvide /\ ~FirstLoad /\ pc # "wait"),
        !.provIn = IF isProvide /\ FirstLoad THEN "loading" ELSE @,
        !.cancelBy = IF by # "" /\ ~hist.cancelCalled THEN by ELSE @,
        !.cancelCalled = @ \/ isCancel,
        !.cancelPc = IF isCancel /\ ~hist.cancelCalled THEN pc ELSE @,
        !.evAtCancel = IF isCancel /\ ~hist.cancelCalled THEN Len(events) ELSE @,
        !.callsAtCancel = IF isCancel /\ ~hist.cancelCalled THEN Len(calls) ELSE @,
        !.curAtCancel = IF isCancel /\ ~hist.cancelCalled THEN current ELSE @,
        !.provAfterCancel = IF isProvide /\ hist.cancelCalled /\ @ = "" THEN pc ELSE @]

CanCall == mpc = "idle" /\ hist.nCalls < MaxCalls

\* line 265: provide_credentials is entered, self.email = email
provide_credentials(e, p) ==
    /\ CanCall
    /\ email' = e
    /\ argPass' = p
    /\ mpc' = "prov_passcode"
    /\ hist' = Called(TRUE, <<e, p>>, "")
    /\ UNCHANGED <<passcode, cancelled, authEvent, authProvided, workerVars>>
    /\ UNCHANGED outside

\* line 266: self.passcode = passcode
ProvidePasscode ==
    /\ mpc = "prov_passcode"
    /\ passcode' = argPass
    /\ argPass' = None
    /\ mpc' = "prov_flag"
    /\ UNCHANGED <<email, cancelled, authEvent, authProvided, workerVars, hist>>
    /\ UNCHANGED outside

\* the store of line 267 re-arming a cancelled run
ProvideFlag_rearms ==
    /\ mpc = "prov_flag"
    /\ authProvided' = TRUE
    /\ cancelled' = FALSE
    /\ mpc' = "prov_set"
    /\ UNCHANGED <<argPass, email, passcode, authEvent, workerVars, hist>>
    /\ UNCHANGED outside

\* line 267: self._auth_provided = True
ProvideFlag ==
    /\ mpc = "prov_flag"
    /\ authProvided' = TRUE
    /\ mpc' = "prov_set"
    /\ UNCHANGED <<argPass, email, passcode, cancelled, authEvent, workerVars, hist>>
    /\ UNCHANGED outside

\* line 268: self._auth_event.set(); a call begun during the first load that
\* returns only after it counts as made at another time
ProvideSet ==
    /\ mpc = "prov_set"
    /\ authEvent' = TRUE
    /\ mpc' = "idle"
    /\ hist' = [hist EXCEPT !.provIn = "",
                            !.provOther = @ \/ (hist.provIn = "loading" /\ ~FirstLoad)]
    /\ UNCHANGED <<argPass, email, passcode, cancelled, authProvided, workerVars>>
    /\ UNCHANGED outside

\* line 272: cancel is entered, self._cancelled = True
cancel ==
    /\ CanCall
    /\ cancelled' = TRUE
    /\ mpc' = "cancel_set"
    /\ hist' = Called(FALSE, <<>>, "cancel")
    /\ UNCHANGED <<argPass, email, passcode, authEvent, authProvided, workerVars>>
    /\ UNCHANGED outside

\* a cancel() that reports the cancellation as an error event
CancelSet_reports ==
    /\ mpc = "cancel_set"
    /\ authEvent' = TRUE
    /\ mpc' = "idle"
    /\ Emit(<<Error("Cancelled")>>)
    /\ UNCHANGED <<argPass, email, passcode, cancelled, authProvided, pc,
                   ldEmail, total, current, exc, calls, gates, hist>>
    /\ UNCHANGED outside

\* line 273: self._auth_event.set()
CancelSet ==
    /\ mpc = "cancel_set"
    /\ authEvent' = TRUE
    /\ mpc' = "idle"
    /\ UNCHANGED <<argPass, email, passcode, cancelled, authProvided, workerVars, hist>>
    /\ UNCHANGED outside

\* line 277: cancel_auth is entered, self._cancelled = True
cancel_auth ==
    /\ CanCall
    /\ cancelled' = TRUE
    /\ mpc' = "cancel_auth_flag"
    /\ hist' = Called(FALSE, <<>>, "cancel_auth")
    /\ UNCHANGED <<argPass, email, passcode, authEvent, authProvided, workerVars>>
    /\ UNCHANGED outside

\* line 278: self._auth_provided = False
CancelAuthFlag ==
    /\ mpc = "cancel_auth_flag"
    /\ authProvided' = FALSE
    /\ mpc' = "cancel_auth_set"
    /\ UNCHANGED <<argPass, email, passcode, cancelled, authEvent, workerVars, hist>>
    /\ UNCHANGED outside

\* line 279: self._auth_event.set()
CancelAuthSet ==
    /\ mpc = "cancel_auth_set"
    /\ authEvent' = TRUE
    /\ mpc' = "idle"
    /\ UNCHANGED <<argPass, email, passcode, cancelled, authProvided, workerVars, hist>>
    /\ UNCHANGED outside

MainNext ==
    \/ \E a \in ProvideArgs : provide_credentials(a[1], a[2])
    \/ ProvidePasscode \/ ProvideFlag \/ ProvideSet
    \/ cancel \/ CancelSet
    \/ cancel_auth \/ CancelAuthFlag \/ CancelAuthSet

Next == Start \/ WorkerNext \/ MainNext

Spec == Init /\ [][Next]_vars

\* ------------------------------------------------------------- name pool
\* what the try body of a _load raises: nothing when the file does not exist
\* or converts, else the error of the read, of json.loads, of the conversion
LoadError(file) ==
    CASE file.state = "unreadable" -> "PermissionError"
      [] file.state = "corrupt" -> "JSONDecodeError"
      [] file.state = "invalid" -> "TypeError"
      [] OTHER -> ""

\* except Exception: every error the try body raises is caught
Caught(cls) == TRUE

\* the record of a constructor's _load: the file found, whether the call
\* returned
Loaded(file) ==
    Op("_load", "", "", {}, file, FALSE,
       LoadError(file) = "" \/ Caught(LoadError(file)))

\* NameManager._load: the used names of the file; the empty set when the
\* file is missing (nothing is read) or when the read, the parse or set()
\* raises (line 214)
LoadNames(file) == IF file.state = "ok" THEN SetOf(file.data) ELSE {}

\* every name of the catalogue, used or not
Available_ignores_used(used) == SetOf(CARTOON_NAMES)

\* line 232: available = set(CARTOON_NAMES) - self._used_names
Available(used) == SetOf(CARTOON_NAMES) \ used

\* a write may fail MaxWriteFailures times
MayWrite(outcome) == outcome = "ok" \/ nFail < MaxWriteFailures
CountWrite(outcome) == nFail' = IF outcome = "ok" THEN nFail ELSE nFail + 1

\* NameManager._save: {"used": list(self._used_names)} written to the file,
\* every exception swallowed
SaveNames(used, outcome) ==
    /\ MayWrite(outcome)
    /\ usedFile' = Written(usedFile, ListOf(used), outcome)
    /\ CountWrite(outcome)

\* get_random_name(): name is what random.choice returns
get_random_name(name, outcome) ==
    /\ component = "names"
    /\ LET reset == Available(_used_names) = {}
           used == IF reset THEN {} ELSE _used_names
           available == IF reset THEN SetOf(CARTOON_NAMES)
                                 ELSE Available(_used_names)
       IN /\ name \in available
          /\ _used_names' = used \cup {name}
          /\ SaveNames(used \cup {name}, outcome)
    /\ last' = Op("get_random_name", "", name, _used_names, usedFile, TRUE,
                  outcome = "ok")
    /\ UNCHANGED <<component, convVars, appVars, fileVars, historyVars>>

\* release_name that saves whether or not the name was used
release_name_always_saves(name, outcome) ==
    /\ component = "names"
    /\ _used_names' = _used_names \ {name}
    /\ SaveNames(_used_names \ {name}, outcome)
    /\ last' = Op("release_name", name, "", _used_names, usedFile, TRUE,
                  outcome = "ok")
    /\ UNCHANGED <<component, convVars, appVars, fileVars, historyVars>>

\* release_name(name)
release_name(name, outcome) ==
    /\ component = "names"
    /\ IF name \in _used_names
       THEN /\ _used_names' = _used_names \ {name}
            /\ SaveNames(_used_names \ {name}, outcome)
            /\ last' = Op("release_name", name, "", _used_names, usedFile,
                          TRUE, outcome = "ok")
       ELSE /\ outcome = "ok"
            /\ last' = Op("release_name", name, "", _used_names, usedFile,
                          FALSE, FALSE)
            /\ UNCHANGED <<_used_names, usedFile, nFail>>
    /\ UNCHANGED <<component, convVars, appVars, fileVars, historyVars>>

\* get_available_count(): len(CARTOON_NAMES) - len(self._used_names), the
\* length of the list less the size of the set
get_available_count ==
    /\ component = "names"
    /\ last' = Op("get_available_count", "",
                  Len(CARTOON_NAMES) - Cardinality(_used_names),
                  _used_names, usedFile, FALSE, TRUE)
    /\ UNCHANGED <<component, convVars, appVars, nameVars, fileVars,
                   historyVars, nFail>>

\* the used_names.json a NameManager may find when it is constructed: none,
\* one that cannot be read, one that is no JSON, one whose "used" list holds a
\* name and then a member set() cannot hash, and every document set()
\* accepts ("Stale" is a member no catalogue name equals: a name of an earlier
\* catalogue, a character of a "used" that is a string)
UsedFiles ==
    {NoFile, UnreadableFile, CorruptFile, File("invalid", <<"Daisy">>)} \cup
    {File("ok", ListOf(S)) : S \in SUBSET (SetOf(CARTOON_NAMES) \cup {"Stale"})}

\* NameManager.__init__
NamesInit ==
    /\ component = "names"
    /\ usedFile \in UsedFiles
    /\ _used_names = LoadNames(usedFile)
    /\ last = Loaded(usedFile)
    /\ FilesIdle
    /\ HistoryIdle

\* ------------------------------------------------------------- output files
\* f"{name}.pdf" and f"{base_name} ({counter}).pdf"
PdfName(name) == name \o ".pdf"
Numbered(base, counter) == base \o " (" \o ToString(counter) \o ").pdf"

\* the loop writing over the existing file
FreePath_overwrites(path, base, counter, fs) == path

\* worker.py lines 191-195: while output_path.exists(): the next numbered
\* path
RECURSIVE FreePath(_, _, _, _)
FreePath(path, base, counter, fs) ==
    IF path \notin fs THEN path
    ELSE FreePath(Numbered(base, counter), base, counter + 1, fs)

\* worker.py lines 188-195
WorkerPath(name, fs) == FreePath(PdfName(name), name, 1, fs)

\* complete.py lines 331-336: while True, the first numbered path that does
\* not exist
RECURSIVE NextFree(_, _, _)
NextFree(stem, counter, fs) ==
    IF Numbered(stem, counter) \notin fs THEN Numbered(stem, counter)
    ELSE NextFree(stem, counter + 1, fs)

\* CompleteScreen._get_unique_path(output_dir / f"{name}.pdf"): path.stem of
\* that path is name, path.suffix is ".pdf"
_get_unique_path(stem, fs) ==
    IF PdfName(stem) \notin fs THEN PdfName(stem) ELSE NextFree(stem, 1, fs)

\* worker.py lines 186-197: the worker writes the PDF under a free path; the
\* complete screen takes it as the file to save (set_result)
WriteOutput(name) ==
    /\ component = "files"
    /\ temp = ""
    /\ nSaves < MaxSaves
    /\ LET output_path == WorkerPath(name, files)
       IN /\ files' = files \cup {output_path}
          /\ temp' = output_path
          /\ last' = Op("write_bytes", name, output_path, files, NoFile, TRUE, TRUE)
    /\ nSaves' = nSaves + 1
    /\ UNCHANGED <<component, convVars, appVars, nameVars, historyVars, nFail>>

\* CompleteScreen._on_save_clicked with the sanitized name: the file is
\* moved to the final path, or shutil.move raises and it stays
_on_save_clicked(name, moved) ==
    /\ component = "files"
    /\ temp # ""
    /\ LET final_path == _get_unique_path(name, files)
       IN IF moved
          THEN /\ files' = IF temp # final_path
                           THEN (files \ {temp}) \cup {final_path}
                           ELSE files
               /\ temp' = ""
               /\ last' = Op("move", name, final_path, files, NoFile, TRUE, TRUE)
          ELSE /\ temp # final_path
               /\ last' = Op("move", name, final_path, files, NoFile, FALSE, FALSE)
               /\ UNCHANGED <<files, temp>>
    /\ UNCHANGED <<component, convVars, appVars, nameVars, historyVars, nSaves, nFail>>

\* CompleteScreen._on_discard_clicked: the temporary file is unlinked
_on_discard_clicked ==
    /\ component = "files"
    /\ temp # ""
    /\ files' = files \ {temp}
    /\ temp' = ""
    /\ last' = Op("unlink", "", temp, files, NoFile, TRUE, TRUE)
    /\ UNCHANGED <<component, convVars, appVars, nameVars, historyVars, nSaves, nFail>>

\* the output directory when the application starts
FilesInit ==
    /\ component = "files"
    /\ files \in SUBSET {PdfName(FileNames[i]) : i \in DOMAIN FileNames}
    /\ temp = ""
    /\ nSaves = 0
    /\ last = NoOp
    /\ _used_names = {}
    /\ usedFile = NoFile
    /\ HistoryIdle

\* ------------------------------------------------------------- history
\* the dataclass HistoryEntry, asdict(entry) and HistoryEntry(**entry)
HistoryEntry(name, pdf_path, page_count, timestamp, has_summary) ==
    [name |-> name, pdf_path |-> pdf_path, page_count |-> page_count,
     timestamp |-> timestamp, has_summary |-> has_summary]
asdict(e) ==
    [name |-> e.name, pdf_path |-> e.pdf_path, page_count |-> e.page_count,
     timestamp |-> e.timestamp, has_summary |-> e.has_summary]
FromDict(d) ==
    HistoryEntry(d.name, d.pdf_path, d.page_count, d.timestamp, d.has_summary)

\* the document written with every summary flag false
Dump_without_flags(h) ==
    [i \in DOMAIN h |-> [asdict(h[i]) EXCEPT !.has_summary = FALSE]]

\* line 142: [asdict(entry) for entry in self._history]
Dump(h) == [i \in DOMAIN h |-> asdict(h[i])]

\* a _load that keeps the entries converted before the one that raised
LoadHistory_keeps_prefix(file) ==
    IF file.state \in {"ok", "invalid"}
    THEN [i \in DOMAIN file.data |-> FromDict(file.data[i])]
    ELSE <<>>

\* HistoryManager._load: the entries of the file; the empty list when the
\* file is missing or when open, json.load or HistoryEntry(**entry) raises
\* (line 135)
LoadHistory(file) ==
    IF file.state = "ok" THEN [i \in DOMAIN file.data |-> FromDict(file.data[i])]
    ELSE <<>>

\* HistoryManager._save, every exception swallowed
SaveHistory(h, outcome) ==
    /\ MayWrite(outcome)
    /\ historyFile' = Written(historyFile, Dump(h), outcome)
    /\ CountWrite(outcome)

\* [e for e in self._history if e.pdf_path != pdf_path]
Without(h, pdf_path) == SelectSeq(h, LAMBDA e : e.pdf_path # pdf_path)

\* the list cut one entry too late
Trim_one_more(h) ==
    SubSeq(h, 1, IF Len(h) < MAX_ENTRIES + 1 THEN Len(h) ELSE MAX_ENTRIES + 1)

\* line 180: self._history[: self.MAX_ENTRIES]
Trim(h) == SubSeq(h, 1, IF Len(h) < MAX_ENTRIES THEN Len(h) ELSE MAX_ENTRIES)

\* an operation on a new path, or one of the MaxOther others
NewPath(pdf_path) == pdf_path = nPaths + 1
Counted(isNew) ==
    /\ isNew \/ nOther < MaxOther
    /\ nPaths' = IF isNew THEN nPaths + 1 ELSE nPaths
    /\ nOther' = IF isNew THEN nOther ELSE nOther + 1

\* the paths an operation other than the add of a new path is called with:
\* those of the newest, the middle and the oldest entry, the first path ever
\* added (no longer in a history that has evicted) and a path never added
Targets ==
    {0, 1} \cup {_history[i].pdf_path :
                    i \in {1, (Len(_history) + 1) \div 2, Len(_history)}
                         \cap DOMAIN _history}

\* HistoryManager.add
add(name, pdf_path, page_count, outcome) ==
    /\ component = "history"
    /\ NewPath(pdf_path) \/ pdf_path \in Targets \ {0}
    /\ Counted(NewPath(pdf_path))
    /\ LET entry == HistoryEntry(name, pdf_path, page_count, clock, FALSE)
           h == Trim(<<entry>> \o Without(_history, pdf_path))
       IN /\ _history' = h
          /\ SaveHistory(h, outcome)
    /\ clock' = clock + 1
    /\ last' = Op("add", pdf_path, "", _history, historyFile, TRUE, outcome = "ok")
    /\ UNCHANGED <<component, convVars, appVars, nameVars, fileVars>>

\* HistoryManager.update_summary
update_summary(pdf_path, outcome) ==
    /\ component = "history"
    /\ pdf_path \in Targets
    /\ Counted(FALSE)
    /\ LET found == {i \in DOMAIN _history : _history[i].pdf_path = pdf_path}
       IN IF found # {}
          THEN LET i == CHOOSE j \in found : \A k \in found : j <= k
                   h == [_history EXCEPT ![i].has_summary = TRUE]
               IN /\ _history' = h
                  /\ SaveHistory(h, outcome)
                  /\ last' = Op("update_summary", pdf_path, "", _history,
                                historyFile, TRUE, outcome = "ok")
          ELSE /\ outcome = "ok"
               /\ last' = Op("update_summary", pdf_path, "", _history,
                             historyFile, FALSE, FALSE)
               /\ UNCHANGED <<_history, historyFile, nFail>>
    /\ UNCHANGED <<component, convVars, appVars, nameVars, fileVars, clock>>

\* HistoryManager.clear
clear(outcome) ==
    /\ component = "history"
    /\ Counted(FALSE)
    /\ _history' = <<>>
    /\ SaveHistory(<<>>, outcome)
    /\ last' = Op("clear", 0, "", _history, historyFile, TRUE, outcome = "ok")
    /\ UNCHANGED <<component, convVars, appVars, nameVars, fileVars, clock>>

\* HistoryManager.remove
remove(pdf_path, outcome) ==
    /\ component = "history"
    /\ pdf_path \in Targets
    /\ Counted(FALSE)
    /\ _history' = Without(_history, pdf_path)
    /\ SaveHistory(Without(_history, pdf_path), outcome)
    /\ last' = Op("remove", pdf_path, "", _history, historyFile, TRUE,
                  outcome = "ok")
    /\ UNCHANGED <<component, convVars, appVars, nameVars, fileVars, clock>>

\* the history.json a HistoryManager may find when it is constructed: none,
\* one that cannot be read, one that is no JSON, one whose list holds an
\* entry and then a member that is no entry
HistoryFiles ==
    {NoFile, UnreadableFile, CorruptFile,
     File("invalid", <<asdict(HistoryEntry("Old", 0, 1, 0 - 1, FALSE))>>)}

\* HistoryManager.__init__
HistoryInit ==
    /\ component = "history"
    /\ historyFile \in HistoryFiles
    /\ _history = LoadHistory(historyFile)
    /\ last = Loaded(historyFile)
    /\ clock = 0
    /\ nPaths = 0
    /\ nOther = 0
    /\ _used_names = {}
    /\ usedFile = NoFile
    /\ FilesIdle

StoreInit ==
    /\ ConvInit
    /\ AppIdle
    /\ nFail = 0
    /\ \/ NamesInit
       \/ FilesInit
       \/ HistoryInit

StoreNext ==
    \/ \E n \in SetOf(CARTOON_NAMES), o \in WriteOutcomes : get_random_name(n, o)
    \/ \E n \in NameArgs, o \in WriteOutcomes : release_name(n, o)
    \/ get_available_count
    \/ \E n \in SetOf(FileNames) : WriteOutput(n)
    \/ \E n \in SetOf(FileNames), m \in BOOLEAN : _on_save_clicked(n, m)
    \/ _on_discard_clicked
    \/ \E p \in 1..MaxPaths, o \in WriteOutcomes :
            add(DocName(p), p, PagesOf(p), o)
    \/ \E p \in 0..MaxPaths, o \in WriteOutcomes : update_summary(p, o)
    \/ \E o \in WriteOutcomes : clear(o)
    \/ \E p \in 0..MaxPaths, o \in WriteOutcomes : remove(p, o)

StoreSpec == StoreInit /\ [][StoreNext]_vars

\* ------------------------------------------------------------- application
(***************************************************************************)
(* DocSendApp (src/topdf_app/app.py): the controller on the main thread,   *)
(* the ConversionWorker threads it creates, and the events their signals   *)
(* post to the main thread's event loop.  A handler runs from entry to     *)
(* return as one step, but for _start_conversion, which blocks in          *)
(* worker.wait(1000) while the worker threads go on.  The worker methods   *)
(* called by a handler take effect at once (their store-by-store           *)
(* interleavings are the subject of the worker's own specification), and   *)
(* progress events, which change no state of the controller, are not       *)
(* posted.                                                                 *)
(***************************************************************************)
\* ConversionWorker objects the application creates in one behaviour
MaxWorkers == 2

\* a worker as _start_conversion creates and starts it: the thread is in the
\* first scrape
NewWorker ==
    [pc |-> "scrape", cancelled |-> FALSE, authEvent |-> FALSE,
     authProvided |-> FALSE]
\* the page count of the document worker w converts, and the file it writes
DocPages(w) == 2 * w + 1
TempPath(w) == "out/name" \o ToString(w) \o ".pdf"
\* the path the complete screen moves a file to
FinalPath(written) == "saved as " \o written

\* state.py: the transitions set_state accepts without force
VALID_TRANSITIONS ==
    [s \in {"HOME", "PROGRESS", "AUTH_EMAIL", "AUTH_PASSCODE", "COMPLETE",
            "ERROR"} |->
        CASE s = "HOME" -> {"PROGRESS"}
          [] s = "PROGRESS" -> {"AUTH_EMAIL", "COMPLETE", "ERROR"}
          [] s = "AUTH_EMAIL" -> {"PROGRESS", "AUTH_PASSCODE"}
          [] s = "AUTH_PASSCODE" -> {"PROGRESS"}
          [] s = "COMPLETE" -> {"HOME"}
          [] s = "ERROR" -> {"PROGRESS", "HOME"}]
\* StateManager.can_transition
can_transition(from_state, to_state) == to_state \in VALID_TRANSITIONS[from_state]

\* QThread.isRunning(): run() has not returned
isRunning(w) == workers[w].pc # "done"

\* where a thread stays for long without reading _cancelled: inside
\* scraper.scrape, inside the file write
LongSteps == {"scrape", "retry", "save"}

\* cancel(), cancel_auth() and provide_credentials() on a worker
Cancel(wr) == [wr EXCEPT !.cancelled = TRUE, !.authEvent = TRUE]
CancelAuth(wr) ==
    [wr EXCEPT !.cancelled = TRUE, !.authProvided = FALSE, !.authEvent = TRUE]
Provide(wr) == [wr EXCEPT !.authProvided = TRUE, !.authEvent = TRUE]

\* a queued signal of worker w, or the deferred deletion of w
Posted(w, kind, auth, path, pages) ==
    [sender |-> w, kind |-> kind, auth |-> auth, path |-> path, pages |-> pages]
AuthRequiredOf(w, kind) == Posted(w, "auth_required", kind, "", 0)
CompleteOf(w) == Posted(w, "complete", "", TempPath(w), DocPages(w))
ErrorOf(w) == Posted(w, "error", "", "", 0)
DeferredDelete(w) == Posted(w, "delete", "", "", 0)

\* the process has not been aborted
Up == apc # "crashed"

storeRest == <<convVars, component, nameVars, fileVars, nPaths, nOther, nFail,
               last>>
appRest == <<storeRest, home>>
historyStore == <<_history, historyFile, clock>>

\* run(): a scrape ends; it returns its result, or it meets a gate (the first
\* scrape only; lines 103-109, 129-135), or it raises
RunScrape(w) ==
    /\ Up
    /\ workers[w].pc \in {"scrape", "retry"}
    /\ \/ /\ workers' = [workers EXCEPT ![w].pc = "scraped"]
          /\ UNCHANGED queue
       \/ /\ workers[w].pc = "scrape"
          /\ IF workers[w].cancelled
             THEN /\ workers' = [workers EXCEPT ![w].pc = "done"]
                  /\ UNCHANGED queue
             ELSE \E kind \in {"email", "passcode"} :
                  /\ workers' = [workers EXCEPT ![w].pc = "wait"]
                  /\ queue' = Append(queue, AuthRequiredOf(w, kind))
       \/ /\ workers' = [workers EXCEPT ![w].pc = "except"]
          /\ UNCHANGED queue
    /\ UNCHANGED <<state, worker, apc, current_url, pending, screen, ahist,
                   historyStore, appRest>>

\* run() lines 112-119, 138-145: the wait returns, the event is cleared, the
\* flags are tested
RunWait(w) ==
    /\ Up
    /\ workers[w].pc = "wait"
    /\ workers[w].authEvent
    /\ workers' = [workers EXCEPT
            ![w].authEvent = FALSE,
            ![w].pc = IF workers[w].cancelled \/ ~workers[w].authProvided
                      THEN "done" ELSE "retry"]
    /\ UNCHANGED <<state, worker, queue, apc, current_url, pending, screen,
                   ahist, historyStore, appRest>>

\* run() lines 155-183: each test of _cancelled with the step that follows
\* it (naming; pdf_builder.build, which may raise; nothing before the save)
RunCheck(w) ==
    /\ Up
    /\ workers[w].pc \in {"scraped", "named", "built"}
    /\ IF workers[w].cancelled
       THEN workers' = [workers EXCEPT ![w].pc = "done"]
       ELSE CASE workers[w].pc = "scraped" ->
                    workers' = [workers EXCEPT ![w].pc = "named"]
              [] workers[w].pc = "named" ->
                    \E to \in {"built", "except"} :
                        workers' = [workers EXCEPT ![w].pc = to]
              [] workers[w].pc = "built" ->
                    workers' = [workers EXCEPT ![w].pc = "save"]
    /\ UNCHANGED <<state, worker, queue, apc, current_url, pending, screen,
                   ahist, historyStore, appRest>>

\* run() lines 186-204: the file is written and complete is emitted (the
\* thread has still to return from run()), or the write raises
RunSave(w) ==
    /\ Up
    /\ workers[w].pc = "save"
    /\ \/ /\ workers' = [workers EXCEPT ![w].pc = "returning"]
          /\ queue' = Append(queue, CompleteOf(w))
       \/ /\ workers' = [workers EXCEPT ![w].pc = "except"]
          /\ UNCHANGED queue
    /\ UNCHANGED <<state, worker, apc, current_url, pending, screen, ahist,
                   historyStore, appRest>>

\* run() lines 206-209
RunExcept(w) ==
    /\ Up
    /\ workers[w].pc = "except"
    /\ IF workers[w].cancelled
       THEN /\ workers' = [workers EXCEPT ![w].pc = "done"]
            /\ UNCHANGED queue
       ELSE /\ workers' = [workers EXCEPT ![w].pc = "returning"]
            /\ queue' = Append(queue, ErrorOf(w))
    /\ UNCHANGED <<state, worker, apc, current_url, pending, screen, ahist,
                   historyStore, appRest>>

\* the thread returns from run() after its last emit: from then on
\* isRunning() is false.  The signal was queued when it was emitted, so the
\* main thread may handle it before or after this step
RunReturn(w) ==
    /\ Up
    /\ workers[w].pc = "returning"
    /\ workers' = [workers EXCEPT ![w].pc = "done"]
    /\ UNCHANGED <<state, worker, queue, apc, current_url, pending, screen,
                   ahist, historyStore, appRest>>

\* the main thread is in its event loop
Idle == apc = "idle"

\* _start_conversion lines 198-224: the progress state, the new worker
\* created, connected and started
StartWorker(ws) ==
    /\ state' = "PROGRESS"
    /\ workers' = Append(ws, NewWorker)
    /\ worker' = Len(ws) + 1
    /\ apc' = "idle"

\* _start_conversion lines 190-195: a running worker is cancelled and waited
\* for; one that is not running is handed to deleteLater at once
_start_conversion ==
    /\ Len(workers) < MaxWorkers
    /\ IF worker # 0 /\ isRunning(worker)
       THEN /\ workers' = [workers EXCEPT ![worker] = Cancel(@)]
            /\ apc' = "wait"
            /\ UNCHANGED <<state, worker, queue>>
       ELSE /\ queue' = IF worker # 0 THEN Append(queue, DeferredDelete(worker))
                                      ELSE queue
            /\ StartWorker(workers)

\* worker.wait(1000) returns: the thread has finished, or the second is over
\* while it is still in a long step
WaitReturns ==
    /\ apc = "wait"
    /\ ~isRunning(worker) \/ workers[worker].pc \in LongSteps
    /\ queue' = Append(queue, DeferredDelete(worker))
    /\ StartWorker(workers)
    /\ UNCHANGED <<current_url, pending, screen, ahist, historyStore, appRest>>

\* _on_convert_requested(url), which the Convert button of the home screen
\* reaches through convert_clicked and convert_requested
_on_convert_requested(url) ==
    /\ Idle
    /\ state = "HOME"
    /\ current_url' = url
    /\ _start_conversion
    /\ ahist' = [ahist EXCEPT !.cancelHome = FALSE]
    /\ UNCHANGED <<pending, screen, historyStore, storeRest>>

\* Retry on the error screen: _on_retry_requested
_on_retry_requested ==
    /\ Idle
    /\ state = "ERROR"
    /\ IF current_url # NoUrl
       THEN _start_conversion
       ELSE UNCHANGED <<state, worker, workers, queue, apc>>
    /\ UNCHANGED <<current_url, pending, screen, ahist, historyStore, appRest>>

\* Cancel on the progress screen: _on_cancel_requested
_on_cancel_requested ==
    /\ Idle
    /\ state = "PROGRESS"
    /\ IF worker # 0 /\ isRunning(worker)
       THEN /\ workers' = [workers EXCEPT ![worker] = Cancel(@)]
            /\ state' = "HOME"
            /\ ahist' = [ahist EXCEPT !.cancelled = @ \cup {worker},
                                      !.cancelHome = TRUE]
       ELSE UNCHANGED <<workers, state, ahist>>
    /\ UNCHANGED <<worker, queue, apc, current_url, pending, screen,
                   historyStore, appRest>>

\* the back arrow of the progress and of the error screen, Convert Another
\* and the countdown of the complete screen once saved: MainWindow._go_home,
\* then _on_convert_another
_on_convert_another ==
    /\ Idle
    /\ \/ state \in {"PROGRESS", "ERROR"}
       \/ state = "COMPLETE" /\ screen.saved
    /\ current_url' = NoUrl
    /\ state' = "HOME"
    /\ UNCHANGED <<worker, workers, queue, apc, pending, screen, ahist,
                   historyStore, appRest>>

\* Submit on an auth screen: _on_auth_email_submitted,
\* _on_auth_passcode_submitted
_on_auth_submitted ==
    /\ Idle
    /\ state \in {"AUTH_EMAIL", "AUTH_PASSCODE"}
    /\ IF worker # 0
       THEN /\ workers' = [workers EXCEPT ![worker] = Provide(@)]
            /\ state' = "PROGRESS"
       ELSE UNCHANGED <<workers, state>>
    /\ UNCHANGED <<worker, queue, apc, current_url, pending, screen, ahist,
                   historyStore, appRest>>

\* Cancel on an auth screen: _on_auth_cancelled
_on_auth_cancelled ==
    /\ Idle
    /\ state \in {"AUTH_EMAIL", "AUTH_PASSCODE"}
    /\ IF worker # 0
       THEN /\ workers' = [workers EXCEPT ![worker] = CancelAuth(@)]
            /\ ahist' = [ahist EXCEPT !.cancelled = @ \cup {worker},
                                      !.cancelHome = TRUE]
       ELSE /\ ahist' = [ahist EXCEPT !.cancelHome = TRUE]
            /\ UNCHANGED workers
    /\ state' = "HOME"
    /\ UNCHANGED <<worker, queue, apc, current_url, pending, screen,
                   historyStore, appRest>>

\* _on_error and _show_complete_screen: the worker is handed to deleteLater
\* and forgotten
CleanUp(q) ==
    /\ queue' = IF worker # 0 THEN Append(q, DeferredDelete(worker)) ELSE q
    /\ worker' = 0

\* the event loop handles the oldest posted event: _on_auth_required,
\* _on_complete, _on_error (none of them looks at the sender), or the
\* deferred deletion of a worker.  Deleting a QThread whose thread is running
\* aborts the process; the events a deleted worker has posted are handled or
\* dropped
Deliver ==
    /\ Idle
    /\ queue # <<>>
    /\ LET ev == Head(queue)
           rest == Tail(queue)
       IN CASE ev.kind = "auth_required" ->
                 /\ state' = IF ev.auth = "email" THEN "AUTH_EMAIL"
                                                  ELSE "AUTH_PASSCODE"
                 /\ queue' = rest
                 /\ UNCHANGED <<worker, apc, pending, screen>>
            [] ev.kind = "complete" ->
                 /\ pending' = [path |-> ev.path, pages |-> ev.pages]
                 /\ screen' = [temp |-> ev.path, saved |-> FALSE]
                 /\ state' = "COMPLETE"
                 /\ CleanUp(rest)
                 /\ UNCHANGED apc
            [] ev.kind = "error" ->
                 /\ state' = "ERROR"
                 /\ CleanUp(rest)
                 /\ UNCHANGED <<apc, pending, screen>>
            [] ev.kind = "delete" ->
                 /\ IF isRunning(ev.sender)
                    THEN /\ apc' = "crashed"
                         /\ queue' = rest
                    ELSE /\ \/ queue' = rest
                            \/ queue' = SelectSeq(rest,
                                                  LAMBDA e : e.sender # ev.sender)
                         /\ UNCHANGED apc
                 /\ UNCHANGED <<state, worker, pending, screen>>
    /\ ahist' = IF Head(queue).kind \in {"complete", "error"}
                THEN [ahist EXCEPT !.terminalFrom = Head(queue).sender,
                                   !.terminalFor = worker]
                ELSE ahist
    /\ UNCHANGED <<workers, current_url, historyStore, appRest>>

\* Save on the complete screen: the file is moved to its final path and
\* file_saved calls _on_file_saved, which adds the history entry; or the move
\* raises and nothing is emitted
_on_file_saved ==
    /\ Idle
    /\ state = "COMPLETE"
    /\ screen.temp # ""
    /\ ~screen.saved
    /\ \/ LET final_pdf_path == FinalPath(screen.temp)
              entry == HistoryEntry(final_pdf_path, final_pdf_path,
                                    pending.pages, clock, FALSE)
              h == Trim(<<entry>> \o Without(_history, final_pdf_path))
          IN /\ screen' = [screen EXCEPT !.saved = TRUE]
             /\ _history' = h
             /\ historyFile' = Written(historyFile, Dump(h), "ok")
             /\ clock' = clock + 1
             /\ ahist' = [ahist EXCEPT !.savedFrom = @ \cup {screen.temp}]
       \/ UNCHANGED <<screen, historyStore, ahist>>
    /\ UNCHANGED <<state, worker, workers, queue, apc, current_url, pending,
                   appRest>>

\* Discard on the complete screen: the file is unlinked, then _go_home
AppDiscard ==
    /\ Idle
    /\ state = "COMPLETE"
    /\ ~screen.saved
    /\ screen' = NoResult
    /\ current_url' = NoUrl
    /\ state' = "HOME"
    /\ UNCHANGED <<worker, workers, queue, apc, pending, ahist, historyStore,
                   appRest>>

AppInit ==
    /\ ConvInit
    /\ component = "app"
    /\ StoresEmpty
    /\ AppIdle

AppNext ==
    \/ \E w \in DOMAIN workers : RunScrape(w)
    \/ \E w \in DOMAIN workers : RunWait(w)
    \/ \E w \in DOMAIN workers : RunCheck(w)
    \/ \E w \in DOMAIN workers : RunSave(w)
    \/ \E w \in DOMAIN workers : RunExcept(w)
    \/ \E w \in DOMAIN workers : RunReturn(w)
    \/ WaitReturns
    \/ _on_convert_requested(SomeUrl) /\ UNCHANGED home
    \/ _on_retry_requested \/ _on_cancel_requested
    \/ _on_convert_another \/ _on_auth_submitted \/ _on_auth_cancelled
    \/ Deliver \/ _on_file_saved \/ AppDiscard

AppSpec == AppInit /\ [][AppNext]_vars

\* ------------------------------------------------------------- URL validation
(***************************************************************************)
(* is_valid_docsend_url (src/topdf_app/ui/screens/home.py) and the two     *)
(* handlers of the home screen that call it.  A text is the sequence of    *)
(* its parts: a scheme, "www.", a host, a path prefix, single characters.  *)
(***************************************************************************)
\* characters of the token a text is built with, beyond the empty token
MaxToken == 2

SP == " "
\* [a-zA-Z0-9]
AlNum == {"a", "Z", "9"}
\* re.IGNORECASE: a part and its lower-case form match the same pattern
Lower(part) ==
    CASE part = "HTTPS://" -> "https://"
      [] part = "DocSend.com" -> "docsend.com"
      [] part = "Z" -> "z"
      [] OTHER -> part

\* str.strip(): the text without its leading and trailing whitespace
RECURSIVE lstrip(_)
lstrip(u) == IF u # <<>> /\ Head(u) = SP THEN lstrip(Tail(u)) ELSE u
RECURSIVE rstrip(_)
rstrip(u) ==
    IF u # <<>> /\ u[Len(u)] = SP THEN rstrip(SubSeq(u, 1, Len(u) - 1)) ELSE u
strip(u) == rstrip(lstrip(u))

\* part i of u matches one of the alternatives
At(u, i, alternatives) == i <= Len(u) /\ Lower(u[i]) \in alternatives

\* DOCSEND_URL_PATTERN.match(u): https?:// (?:www\.)? docsend\.com /view/
\* [a-zA-Z0-9]+ matched from the first character of u; re.match does not
\* look at what follows the match
PatternMatch(u) ==
    /\ At(u, 1, {"http://", "https://"})
    /\ LET h == IF At(u, 2, {"www."}) THEN 3 ELSE 2
       IN /\ At(u, h, {"docsend.com"})
          /\ At(u, h + 1, {"/view/"})
          /\ At(u, h + 2, {Lower(c) : c \in AlNum})

\* line 43: bool(DOCSEND_URL_PATTERN.match(url.strip()))
is_valid_docsend_url(url) == PatternMatch(strip(url))

\* the texts the field may hold
RECURSIVE Tokens(_)
Tokens(n) ==
    IF n = 0 THEN {<<>>}
    ELSE Tokens(n - 1) \cup
         {Append(t, c) : t \in {x \in Tokens(n - 1) : Len(x) = n - 1},
                         c \in {"a", "Z", "9", "-", "/"}}
Optional(part) == {<<>>, <<part>>}
Urls ==
    {l \o s \o w \o h \o v \o t \o r :
        l \in Optional(SP),
        s \in {<<>>, <<"http://">>, <<"https://">>, <<"HTTPS://">>, <<"ftp://">>},
        w \in Optional("www."),
        h \in {<<>>, <<"docsend.com">>, <<"DocSend.com">>, <<"example.com">>},
        v \in {<<>>, <<"/view/">>, <<"/">>},
        t \in Tokens(MaxToken),
        r \in Optional(SP)}
\* HomeScreen._on_url_changed(text), lines 329-336: textChanged of the field
_on_url_changed ==
    /\ state = "HOME"
    /\ ~home.checked
    /\ home' = [home EXCEPT !.enabled = is_valid_docsend_url(home.text),
                            !.checked = TRUE]
    /\ UNCHANGED <<state, worker, workers, queue, apc, current_url, pending,
                   screen, ahist, historyStore, storeRest>>

\* HomeScreen._on_convert_clicked, lines 347-352: the click of the enabled
\* button; set_loading(True), then convert_clicked, which reaches
\* DocSendApp._on_convert_requested
_on_convert_clicked ==
    /\ home.checked
    /\ home.enabled
    /\ LET url == strip(home.text)
       IN IF is_valid_docsend_url(url)
          THEN /\ home' = [home EXCEPT !.enabled = FALSE]
               /\ _on_convert_requested(url)
          ELSE UNCHANGED vars

\* the home screen with a text just entered in its field
UrlInit ==
    /\ ConvInit
    /\ component = "url"
    /\ StoresEmpty
    /\ state = "HOME"
    /\ worker = 0
    /\ workers = <<>>
    /\ queue = <<>>
    /\ apc = "idle"
    /\ current_url = NoUrl
    /\ pending = NoPending
    /\ screen = NoResult
    /\ ahist = [cancelled |-> {}, cancelHome |-> FALSE, savedFrom |-> {},
                terminalFrom |-> 0, terminalFor |-> 0]
    /\ \E text \in Urls : home = [text |-> text, enabled |-> FALSE,
                                   checked |-> FALSE]

UrlNext == _on_url_changed \/ _on_convert_clicked

UrlSpec == UrlInit /\ [][UrlNext]_vars

\* ------------------------------------------------------------- properties
Terminal(e) == e.kind \in {"complete", "error"}
Count(k) == Cardinality({i \in DOMAIN events : events[i].kind = k})
NTerminal == Count("complete") + Count("error")
\* the events emitted after the first cancel() or cancel_auth() call
AfterCancel == {i \in DOMAIN events : i > hist.evAtCancel}
Gated == Len(gates) >= 1 /\ gates[1] \in {"EmailRequiredError", "PasscodeRequiredError"}
InvalidCredentialsMessage == "Invalid email or passcode"

\* C1: a run emits at most one terminal event (complete or error, never both,
\* never one twice), and a run that has ended with neither is one on which
\* cancel() or cancel_auth() was called.
C1_AtMostOneTerminal ==
    /\ NTerminal <= 1
    /\ (pc = "done" /\ NTerminal = 0) => hist.cancelCalled

\* C1 witness: a run with a credential pause and a cancel call has ended with
\* its single terminal event
C1_Witness ==
    /\ pc = "done"
    /\ NTerminal = 1
    /\ hist.provWaiting
    /\ hist.cancelCalled

\* C2: when cancel() or cancel_auth() is called while the worker is blocked in
\* the credential wait, the wait is released (the event is set once the call
\* has finished), the worker can only go on to return, it makes no further
\* scraper call, and it emits no complete, error or progress event.
C2_CancelDuringWait ==
    hist.cancelPc = "wait" =>
        /\ pc \in {"wait", "clear", "woke", "done"}
        /\ (pc = "wait" /\ mpc = "idle") => authEvent
        /\ Len(calls) = hist.callsAtCancel
        /\ \A i \in AfterCancel :
              events[i].kind \notin {"complete", "error", "progress"}

\* C2 witness: a run cancelled in the wait, after credentials had been
\* provided too, has returned
C2_Witness ==
    /\ hist.cancelPc = "wait"
    /\ hist.provWaiting
    /\ pc = "done"

\* C3: a provide_credentials() call made, from entry to return, during the
\* first load is ignored: as long as provide_credentials() was called at no
\* other time and cancel() was not called, every scrape call uses the constructor's credentials and the
\* worker does not get past the credential wait.
C3_EarlyProvideIgnored ==
    (/\ hist.provLoading
     /\ hist.provIn = ""
     /\ ~hist.provOther
     /\ ~hist.provWaiting
     /\ ~hist.cancelCalled) =>
        /\ \A i \in DOMAIN calls : calls[i] = <<None, None>>
        /\ Len(calls) <= 1
        /\ pc \notin {"clear", "woke"}

\* C4: the percent values of the progress events of a run never decrease.
C4_ProgressMonotonic ==
    \A i, j \in DOMAIN events :
        (i < j /\ events[i].kind = "progress" /\ events[j].kind = "progress")
            => events[i].pct <= events[j].pct

\* C5: when the scrape retried after the email gate reports that a passcode
\* is required, the run does not end in an error, and it does not end at all
\* without having emitted auth_required("passcode").
C5_SecondGateAsksPasscode ==
    (/\ Len(gates) = 2
     /\ gates[1] = "EmailRequiredError"
     /\ gates[2] = "PasscodeRequiredError"
     /\ hist.provWaiting
     /\ ~hist.provLoading
     /\ ~hist.provOther
     /\ ~hist.cancelCalled) =>
        /\ Count("error") = 0
        /\ pc = "done" => \E i \in DOMAIN events : events[i] = AuthRequired("passcode")

\* C6: once cancel() has been called while the worker was capturing, naming,
\* assembling the PDF or saving the file, the worker emits no further
\* progress, auth_required or complete event.
C6_NoEventAfterCancel ==
    (/\ hist.cancelBy = "cancel"
     /\ hist.cancelPc \in {"gate", "capture", "naming", "build", "save"}) =>
        \A i \in AfterCancel :
            events[i].kind \notin {"progress", "auth_required", "complete"}

\* C7: when the scraper, the PDF builder or the file write raises after
\* cancel() was called, the run emits no error event.
C7_NoErrorAfterCancel ==
    hist.raisedCancelled = "yes" => Count("error") = 0

\* C7 witness: the file write has raised on a cancelled run and the run is over
C7_Witness ==
    /\ hist.raisedCancelled = "yes"
    /\ exc.cls = "OSError"
    /\ pc = "done"

\* C8: a complete or error event is the last event of its run.
C8_TerminalIsLast ==
    \A i \in DOMAIN events : Terminal(events[i]) => i = Len(events)

\* C8 witness: a run has emitted complete, and cancel() was called on it
\* afterwards
C8_Witness ==
    /\ Count("complete") = 1
    /\ hist.cancelPc = "done"

\* the case of C9: a gate on the first load, then exactly one
\* provide_credentials() call, made during the wait, and no cancel
C9_Case ==
    /\ Gated
    /\ hist.nProvide = 1
    /\ hist.provWaiting
    /\ ~hist.cancelCalled

\* C9 as stated: in that case the second scrape call carries the provided
\* credentials, and a run whose retried scrape succeeded has ended with
\* exactly one complete event.
C9_RetryCompletes ==
    C9_Case =>
        /\ Len(calls) <= 2
        /\ Len(calls) = 2 => calls[2] = hist.lastProv
        /\ (/\ pc = "done"
            /\ Len(gates) = 2
            /\ gates[2] = "Open"
            /\ exc.cls \notin {"PageLoadError", "TimeoutError"})
                => Count("complete") = 1

\* C9 amended: in that case the run does not end without a second scrape
\* call, that call carries exactly the provided credentials, and a run on
\* which nothing raised has ended with exactly one complete event and no
\* error event.
C9_RetryCompletesUnlessLaterStepFails ==
    C9_Case =>
        /\ Len(calls) <= 2
        /\ pc = "done" => Len(calls) = 2
        /\ Len(calls) = 2 => calls[2] = hist.lastProv
        /\ (pc = "done" /\ exc = NoExc)
                => /\ Count("complete") = 1
                   /\ Count("error") = 0
                   /\ events[Len(events)] = Complete(total)

\* C9 witness: such a run has ended with complete
C9_Witness ==
    /\ C9_Case
    /\ pc = "done"
    /\ exc = NoExc
    /\ calls[2] = <<"x@y.org", "s3cret">>

\* the case of C10: the scrape retried with the provided credentials raised
\* InvalidCredentialsError
C10_Case ==
    /\ Len(gates) = 2
    /\ gates[2] = "InvalidCredentialsError"

\* C10 as stated: the run then ends with exactly one error event, whose
\* message is "Invalid email or passcode".
C10_InvalidCredentialsReported ==
    (C10_Case /\ pc = "done") =>
        /\ Count("error") = 1
        /\ \A i \in DOMAIN events :
              events[i].kind = "error" => events[i].arg = InvalidCredentialsMessage

\* C10 amended: the worker makes no third scrape call, emits no second
\* auth_required and no complete, and can only go on to return; it emits at
\* most one error event, with message "Invalid email or passcode": exactly
\* one when cancel() was never called on the run, none when cancel() was
\* called before the scrape raised.
C10_InvalidCredentialsReportedUnlessCancelled ==
    C10_Case =>
        /\ pc \in {"except", "done"}
        /\ Len(calls) = 2
        /\ Count("auth_required") = 1
        /\ Count("complete") = 0
        /\ Count("error") <= 1
        /\ \A i \in DOMAIN events :
              events[i].kind = "error" => events[i].arg = InvalidCredentialsMessage
        /\ (pc = "done" /\ ~hist.cancelCalled) => Count("error") = 1
        /\ hist.raisedCancelled = "yes" => Count("error") = 0

\* C10 witness: the error was reported and the run is over
C10_Witness ==
    /\ C10_Case
    /\ pc = "done"
    /\ Count("error") = 1

\* C11: when cancel() was called while the worker awaited credentials and
\* provide_credentials() is called afterwards, before or after the worker has
\* woken from the wait, the worker can only go on to return: it makes no
\* further scraper call and emits neither complete nor error.
C11_ProvideAfterCancelNoRetry ==
    (/\ hist.cancelBy = "cancel"
     /\ hist.cancelPc = "wait"
     /\ hist.provAfterCancel # "") =>
        /\ hist.provAfterCancel \in {"wait", "clear", "woke", "done"}
        /\ pc \in {"wait", "clear", "woke", "done"}
        /\ Len(calls) = hist.callsAtCancel
        /\ Count("complete") = 0
        /\ Count("error") = 0

\* C11 witness: provide_credentials() was called, and has returned, after the
\* cancel() and before the worker left the wait; the run is over
C11_Witness ==
    /\ hist.cancelBy = "cancel"
    /\ hist.cancelPc = "wait"
    /\ hist.provAfterCancel = "wait"
    /\ mpc = "idle"
    /\ authProvided
    /\ pc = "done"

\* C14: once cancel() has been called during page capture, at most the page
\* in progress is still captured, and the run does not go on to assemble the
\* pages.
C14_CaptureHaltsOnCancel ==
    (/\ hist.cancelBy = "cancel"
     /\ hist.cancelPc = "capture") =>
        /\ current <= hist.curAtCancel + 1
        /\ pc \notin {"naming", "named", "build", "built", "save", "saved"}

\* the names the catalogue holds
Catalogue == SetOf(CARTOON_NAMES)

\* C16: get_random_name() returns a catalogue name and leaves it in the
\* used-set; while a catalogue name was unused it returns a name that was
\* not in the used-set and removes nothing from the used-set; the used-set
\* loses names (is reset) only when every catalogue name was used.
C16_NoReissueWhileUnused ==
    last.op = "get_random_name" =>
        /\ last.ret \in Catalogue
        /\ last.ret \in _used_names
        /\ Catalogue \ last.before # {} =>
              /\ last.ret \notin last.before
              /\ _used_names = last.before \cup {last.ret}
        /\ last.before \ _used_names # {} => Catalogue \subseteq last.before
        /\ Catalogue \subseteq last.before => _used_names = {last.ret}

\* C16 witness: a draw from a pool in which exactly one catalogue name was
\* unused, next to a name of an earlier catalogue
C16_Witness ==
    /\ last.op = "get_random_name"
    /\ Catalogue \ last.before = {last.ret}
    /\ "Stale" \in last.before
    /\ Catalogue \subseteq _used_names

\* C17: release_name(n) of a used name n removes exactly n from the used-set
\* and saves, and n, when the catalogue holds it, is a name the next
\* get_random_name() can return; release_name of a name that is not in the
\* used-set leaves the used-set and the file as they were and writes nothing.
C17_ReleaseExactlyOne ==
    last.op = "release_name" =>
        IF last.arg \in last.before
        THEN /\ _used_names = last.before \ {last.arg}
             /\ last.wrote
             /\ last.arg \in Catalogue => last.arg \in Available(_used_names)
        ELSE /\ _used_names = last.before
             /\ usedFile = last.fileBefore
             /\ ~last.wrote

\* C17 witness: a used catalogue name was released while other names stay
\* used
C17_Witness ==
    /\ last.op = "release_name"
    /\ last.arg \in last.before
    /\ last.arg \in Catalogue
    /\ _used_names # {}
    /\ last.ok

\* C15: the path the worker writes to, and the path the complete screen moves
\* the file to, is "<name>.pdf" when no such file existed, otherwise
\* "<name> (k).pdf" for the smallest k >= 1 for which no file existed; it is
\* never a path that existed when it was chosen, and every file that
\* existed (but for the temporary file that is moved) is still there.
C15_UniqueOutputPath ==
    last.op \in {"write_bytes", "move"} =>
        LET name == last.arg
            path == last.ret
            existing == last.before
        IN /\ path \notin existing
           /\ PdfName(name) \notin existing => path = PdfName(name)
           /\ PdfName(name) \in existing =>
                 \E k \in 1..(Cardinality(existing) + 1) :
                    /\ path = Numbered(name, k)
                    /\ \A j \in 1..(k - 1) : Numbered(name, j) \in existing
           /\ last.op = "write_bytes" => files = existing \cup {path}
           /\ (last.op = "move" /\ last.ok) =>
                 \E t \in existing : files = (existing \ {t}) \cup {path}

\* C15 witness: with Foo.pdf and Foo (1).pdf in the directory, the third PDF
\* the worker writes goes, under the name Foo, to Foo (2).pdf
C15_Witness ==
    /\ last.op = "write_bytes"
    /\ last.arg = "Foo"
    /\ last.ret = "Foo (2).pdf"
    /\ files = {"Foo.pdf", "Foo (1).pdf", "Foo (2).pdf"}
    /\ nSaves = 3

\* C18: the history holds at most 10 entries, no two with the same pdf_path,
\* the later added before the earlier added; after add() the added path is
\* the first entry and the others are the earlier entries without that path,
\* in their order, less the oldest when they were 10.
C18_HistoryBounded ==
    component = "history" =>
        /\ Len(_history) <= MAX_ENTRIES
        /\ \A i, j \in DOMAIN _history :
              i < j => /\ _history[i].pdf_path # _history[j].pdf_path
                       /\ _history[i].timestamp > _history[j].timestamp
        /\ last.op = "add" =>
              LET others == Without(last.before, last.arg)
              IN /\ _history[1].pdf_path = last.arg
                 /\ _history[1].timestamp = clock - 1
                 /\ Tail(_history) =
                       IF Len(others) = MAX_ENTRIES
                       THEN SubSeq(others, 1, MAX_ENTRIES - 1)
                       ELSE others

\* C18 witness: add() of a path that was the oldest of 10 entries, after an
\* add() had evicted an entry
C18_Witness ==
    /\ component = "history"
    /\ last.op = "add"
    /\ Len(last.before) = MAX_ENTRIES
    /\ last.before[MAX_ENTRIES].pdf_path = last.arg
    /\ nPaths > MAX_ENTRIES
    /\ Len(_history) = MAX_ENTRIES

\* the last operation changed what a store holds
Mutating ==
    \/ last.op \in {"get_random_name", "add", "remove", "clear"}
    \/ last.op = "release_name" /\ last.arg \in last.before
    \/ /\ last.op = "update_summary"
       /\ \E i \in DOMAIN last.before : last.before[i].pdf_path = last.arg

\* C20: every mutating operation writes its file, and when the write
\* succeeded what the file holds, loaded, is what the manager holds.
C20_MutationPersisted ==
    Mutating =>
        /\ last.wrote
        /\ last.ok =>
              /\ component = "names" =>
                    /\ usedFile.state = "ok"
                    /\ LoadNames(usedFile) = _used_names
              /\ component = "history" =>
                    /\ historyFile.state = "ok"
                    /\ LoadHistory(historyFile) = _history

\* C20 witness: update_summary of a present path has written the history
\* over the file a failed write had truncated
C20_Witness ==
    /\ component = "history"
    /\ last.op = "update_summary"
    /\ last.ok
    /\ last.fileBefore = CorruptFile
    /\ Len(_history) >= 2
    /\ _history[2].has_summary
    /\ nFail = 1

\* the workers whose thread is executing run()
Running == {w \in DOMAIN workers : isRunning(w)}

\* C12: at no time are two worker threads executing run().
C12_OneConversionInFlight == Cardinality(Running) <= 1

\* C13: after the user has cancelled a conversion, and until the user starts
\* a new one, no complete or error event of a cancelled worker moves the
\* application to COMPLETE or ERROR.
C13_StaysHomeAfterCancel ==
    (ahist.cancelHome /\ state \in {"COMPLETE", "ERROR"}) =>
        ahist.terminalFrom \notin ahist.cancelled

\* C19: every history entry is that of a file saved on the complete screen,
\* under its final path and with the page count of its conversion, and
\* that conversion is not one the user cancelled.
C19_EntryOnlyOnSave ==
    \A i \in DOMAIN _history :
        \E w \in DOMAIN workers :
            /\ _history[i].pdf_path = FinalPath(TempPath(w))
            /\ _history[i].page_count = DocPages(w)
            /\ TempPath(w) \in ahist.savedFrom
            /\ w \notin ahist.cancelled

\* the file is as the constructor found it, and it is not one _load converts
\* (a write leaves a file ok, truncated to no JSON, or as it was)
FoundBad(file) ==
    \/ file.state \in {"missing", "unreadable", "invalid"}
    \/ file.state = "corrupt" /\ nFail = 0

CaptureMessages ==
    [p \in 0..100 |->
        {Capturing(x[1], x[2]) :
            x \in {y \in (1..MaxPages) \X (1..MaxPages) :
                      y[1] <= y[2] /\ p = (60 * y[1]) \div y[2]}}]
\* every message on_scrape_progress can be called to emit
AllCaptureMessages ==
    {Capturing(c, t) : c \in 1..MaxPages, t \in 1..MaxPages}

C23_CancelAfterTerminalNoOp ==
    (/\ hist.cancelBy = "cancel"
     /\ hist.cancelPc = "done") =>
        /\ hist.evAtCancel >= 1
        /\ Terminal(events[hist.evAtCancel])
        /\ Len(events) = hist.evAtCancel
        /\ Len(calls) = hist.callsAtCancel
        /\ pc = "done"
        /\ NTerminal = 1

\* C23 witness: cancel() was called, and has returned, on a run that had
\* emitted complete after a credential pause
C23_Witness ==
    /\ hist.cancelBy = "cancel"
    /\ hist.cancelPc = "done"
    /\ mpc = "idle"
    /\ cancelled
    /\ authEvent
    /\ hist.provWaiting
    /\ events[Len(events)] = Complete(total)

\* u is, in full, of the form http(s)://[www.]docsend.com/view/<token>, the
\* token one or more alphanumeric characters (scheme and host in any case)
FullForm(u) ==
    /\ At(u, 1, {"http://", "https://"})
    /\ LET h == IF At(u, 2, {"www."}) THEN 3 ELSE 2
       IN /\ At(u, h, {"docsend.com"})
          /\ At(u, h + 1, {"/view/"})
          /\ Len(u) >= h + 2
          /\ \A i \in (h + 2)..Len(u) : u[i] \in AlNum

\* C24: the validator accepts a text (the Convert button is enabled for it)
\* exactly when the text, trimmed, is in full of the form
\* http(s)://[www.]docsend.com/view/<alphanumeric token>, and a conversion
\* is started only for a URL of that form.
C24_ValidExactlyFullForm ==
    /\ (state = "HOME" /\ home.checked) =>
          (home.enabled <=> FullForm(strip(home.text)))
    /\ current_url # NoUrl => FullForm(current_url)

\* C25: get_available_count() returns the number of distinct catalogue names
\* that are not in the used-set; it is never negative, and it is 0 exactly
\* when the next get_random_name() finds no name available and resets.
C25_AvailableCountExact ==
    last.op = "get_available_count" =>
        /\ last.ret = Cardinality(Catalogue \ _used_names)
        /\ last.ret >= 0
        /\ last.ret = 0 <=> Available(_used_names) = {}

\* C26: no worker is handed to deleteLater(), in _start_conversion, _on_error
\* or _show_complete_screen, while its thread is executing run(): no deferred
\* deletion is pending for a running worker.
C26_DeleteOnlyFinished ==
    \A i \in DOMAIN queue :
        queue[i].kind = "delete" => ~isRunning(queue[i].sender)

\* C27: a complete or error of a worker that was cancelled and replaced by
\* _start_conversion is never handled while another worker is the current
\* one (handling it sets the state and the pending result and hands the
\* current worker to deleteLater).
C27_LateEventsIgnored ==
    ~ /\ ahist.terminalFrom # 0
      /\ workers[ahist.terminalFrom].cancelled
      /\ ahist.terminalFor \notin {0, ahist.terminalFrom}

\* C28: whenever the state is HOME, every worker whose thread is running has
\* been cancelled: each way back to HOME during a conversion cancels the
\* worker first.
C28_HomeMeansCancelled ==
    state = "HOME" =>
        \A w \in DOMAIN workers : isRunning(w) => workers[w].cancelled

\* the file the last save moved away: the temporary file of the worker
MovedFrom == last.before \ files

\* C29: a save from the complete screen under the suggested name, the name of
\* the temporary file "<name>.pdf" the worker wrote, leaves the PDF at
\* "<name>.pdf": the temporary file is no collision.
C29_SameNameKeepsPath ==
    (/\ component = "files"
     /\ last.op = "move"
     /\ last.ok
     /\ PdfName(last.arg) \in last.before
     /\ MovedFrom \subseteq {PdfName(last.arg)})
        => /\ last.ret = PdfName(last.arg)
           /\ PdfName(last.arg) \in files

\* C30: every change of the application state the controller makes is a
\* transition VALID_TRANSITIONS permits from the state it is made in.
C30_TransitionsPermitted ==
    [][state' # state => can_transition(state, state')]_vars

=============================================================================
